---- MODULE Spec2Model ----
(***************************************************************************)
(* Model of the auth gateway in backend/src/router/auth.py: the per-       *)
(* provider authorization-code exchange (POST token endpoint, then GET     *)
(* userinfo) and the bearer verification chain (Google, then Authentik).   *)
(* pc, op, calls, resps and outcome are the frame of the handler that is   *)
(* running; other is the frame of a second handler suspended at an await   *)
(* (or idle). Every upstream answer is an input the environment chooses    *)
(* when the awaited call returns. Under Spec requests are served one after *)
(* the other; under SpecConc the event loop interleaves two handlers.      *)
(***************************************************************************)
EXTENDS Integers, Sequences, FiniteSets, TLC

VARIABLES settings, pc, op, calls, resps, outcome, served, other

vars == <<settings, pc, op, calls, resps, outcome, served, other>>

(* ------------------------------ bounds -------------------------------- *)

\* Number of requests served one after the other in one behaviour.
MaxRequests == 2

(* -------------------------- program constants ------------------------- *)

MIN_LENGTH == 43
MAX_LENGTH == 128
HTTP_200_OK == 200
HTTP_400_BAD_REQUEST == 400
HTTP_401_UNAUTHORIZED == 401
HTTP_500_INTERNAL == 500
HTTP_504_TIMEOUT == 504

(* --------------------------- Python values ---------------------------- *)

\* Python's None, and the marker of a key that a JSON object does not hold.
None == "<None>"
Missing == "<missing>"

\* Truthiness of an Optional[str]: None and "" are falsy.
Truthy(v) == v # None /\ v # ""

\* a or b
PyOr(a, b) == IF Truthy(a) THEN a ELSE b

\* The keys a JSON object of this model may hold, in rendering order.
Keys == <<"access_token", "refresh_token", "error",
          "sub", "email", "name", "preferred_username", "picture", "_provider">>

KeySet == {Keys[i] : i \in 1..Len(Keys)}

\* A JSON object holding exactly the keys of kv (a function on a subset of KeySet).
Obj(kv) == [k \in KeySet |-> IF k \in DOMAIN kv THEN kv[k] ELSE Missing]

EmptyObj == [k \in KeySet |-> Missing]

\* d.get(k)
Get(d, k) == IF d[k] = Missing THEN None ELSE d[k]

\* d.get(k, default)
GetDefault(d, k, default) == IF d[k] = Missing THEN default ELSE d[k]

\* k in d
Has(d, k) == d[k] # Missing

\* d[k] = v
SetItem(d, k, v) == [d EXCEPT ![k] = v]

(* ------------------------- upstream responses ------------------------- *)

\* A response body is a JSON object, a JSON string, or text that is no JSON.
ObjBody(d) == [t |-> "obj", v |-> d]
StrBody(s) == [t |-> "str", s |-> s]
RawBody(s) == [t |-> "raw", raw |-> s]

\* resp.json() raises on a body that is no JSON.
JsonRaises(resp) == resp.body.t = "raw"

\* resp.json()
Json(resp) == resp.body

DQ == "\""
SQ == "'"

RECURSIVE Render(_, _, _, _, _, _)
\* The members of object d from key i on, with quote q, colon c and comma s.
Render(d, i, q, c, s, first) ==
    IF i > Len(Keys) THEN <<>>
    ELSE IF d[Keys[i]] = Missing THEN Render(d, i + 1, q, c, s, first)
    ELSE (IF first THEN <<>> ELSE <<s>>)
         \o <<q, Keys[i], q, c, q, d[Keys[i]], q>>
         \o Render(d, i + 1, q, c, s, FALSE)

\* resp.text: the body as it is on the wire.
Text(resp) ==
    CASE resp.body.t = "obj" -> <<"{">> \o Render(resp.body.v, 1, DQ, ":", ",", TRUE) \o <<"}">>
      [] resp.body.t = "str" -> <<DQ, resp.body.s, DQ>>
      [] OTHER -> <<resp.body.raw>>

\* str(v) of a value resp.json() returned, as an f-string formats it.
PyStr(j) ==
    CASE j.t = "obj" -> <<"{">> \o Render(j.v, 1, SQ, ": ", ", ", TRUE) \o <<"}">>
      [] OTHER -> <<j.s>>

\* "application/json" in resp.headers.get("content-type", "")
IsJsonContentType(resp) ==
    \E i \in 1..Len(resp.ctype) : resp.ctype[i] = "application/json"

CtJson == <<"application/json", "; charset=utf-8">>
CtText == <<"text/html">>
CtNone == <<>>

Timeout == [kind |-> "timeout"]
ConnectError == [kind |-> "connect_error"]
Http(status, ctype, body) == [kind |-> "http", status |-> status, ctype |-> ctype, body |-> body]

IsHttp(resp) == resp.kind = "http"

\* Bodies a token endpoint may answer a successful exchange with.
TokenObjs ==
    { Obj(kv) : kv \in
        { [access_token |-> "at1"],
          [access_token |-> "at2", refresh_token |-> "rt"],
          [refresh_token |-> "rt"],
          [error |-> "invalid_grant"] } }
    \cup {EmptyObj}

\* Bodies a token endpoint may answer a refused exchange with.
ErrorBodies ==
    { ObjBody(Obj([error |-> "invalid_grant"])), ObjBody(EmptyObj),
      StrBody("bad request"), RawBody("<html>oops</html>"), RawBody("") }

TokenResponses ==
    {Timeout, ConnectError}
    \cup { Http(HTTP_200_OK, CtJson, ObjBody(d)) : d \in TokenObjs }
    \cup { Http(HTTP_200_OK, CtJson, StrBody("ok")), Http(HTTP_200_OK, CtText, RawBody("ok")) }
    \cup { Http(HTTP_400_BAD_REQUEST, ct, b) : ct \in {CtJson, CtText, CtNone}, b \in ErrorBodies }

OptStr(S) == S \cup {Missing}

\* Payloads a userinfo endpoint may answer with.
UserinfoObjs ==
    { Obj([sub |-> s, email |-> e, name |-> n, preferred_username |-> u, _provider |-> p]) :
        s \in OptStr({"u-1"}), e \in OptStr({"a@x.io"}),
        n \in OptStr({"", "Alice A."}), u \in OptStr({"", "alice"}),
        p \in OptStr({"evil"}) }
    \cup { Obj([sub |-> "u-2", email |-> "b@x.io", picture |-> "pic"]) }

UserinfoResponses ==
    {Timeout, ConnectError}
    \cup { Http(HTTP_200_OK, CtJson, ObjBody(d)) : d \in UserinfoObjs }
    \cup { Http(HTTP_200_OK, CtJson, StrBody("ok")), Http(HTTP_200_OK, CtText, RawBody("ok")) }
    \cup { Http(HTTP_401_UNAUTHORIZED, CtJson, ObjBody(Obj([error |-> "invalid_token"]))),
           Http(HTTP_500_INTERNAL, CtText, RawBody("")) }

(* ------------------------------ settings ------------------------------ *)

\* AuthentikSettings.token_url
AuthentikTokenUrl(a) == <<a.url, "/application/o/token/">>

\* AuthentikSettings.userinfo_url
AuthentikUserinfoUrl(a) == <<a.url, "/application/o/userinfo/">>

\* GoogleOAuthSettings as the environment may set it.
GoogleSettings ==
    [client_id : {"", "g-client"}, client_secret : {"", "g-secret"},
     token_url : {<<"https://oauth2.googleapis.com/token">>},
     userinfo_url : {<<"https://www.googleapis.com/oauth2/v3/userinfo">>}]

\* AuthentikSettings as the environment may set it.
AuthentikSettings == [url : {"", "https://ak.example"}, client_id : {"", "a-client"}]

\* AppSettings: the provider part.
AppSettings == [google : GoogleSettings, authentik : AuthentikSettings]

(* ------------------------------ requests ------------------------------ *)

Fields == {"code", "redirect_uri", "code_verifier"}

\* A string of n characters.
StrOfLen(n) == [i \in 1..n |-> "v"]

\* Bodies a client may send to the token route.
Requests ==
    [has : {Fields}, code : {"", "code-1"}, redirect_uri : {"", "https://app/cb"},
     code_verifier : {StrOfLen(MIN_LENGTH)}]
    \cup [has : {Fields}, code : {"code-1"}, redirect_uri : {"https://app/cb"},
          code_verifier : {StrOfLen(n) : n \in {0, MIN_LENGTH - 1, MAX_LENGTH, MAX_LENGTH + 1}}]
    \cup [has : {Fields \ {f} : f \in Fields}, code : {"code-1"},
          redirect_uri : {"https://app/cb"}, code_verifier : {StrOfLen(MIN_LENGTH)}]

\* Values of the {provider} path parameter.
Providers == {"google", "authentik", "github"}

\* Mutant: the length bounds taken as exclusive.
TokenRequestValidExclusive(request) ==
    /\ Fields \subseteq request.has
    /\ Len(request.code_verifier) > MIN_LENGTH
    /\ Len(request.code_verifier) < MAX_LENGTH

\* TokenRequest: what pydantic accepts.
TokenRequestValid(request) ==
    /\ Fields \subseteq request.has
    /\ Len(request.code_verifier) >= MIN_LENGTH
    /\ Len(request.code_verifier) <= MAX_LENGTH

\* Literal["google", "authentik"]
ProviderValid(provider) == provider \in {"google", "authentik"}

(* ------------------------- results of a handler ------------------------ *)

NoOutcome == [status |-> 0]

\* raise HTTPException(status_code, detail)
HTTPException(status, detail) == [exc |-> "HTTPException", status |-> status, detail |-> detail]

\* Any exception that is neither an HTTPException nor a timeout.
OtherException(name, msg) == [exc |-> name, detail |-> <<msg>>]

TimeoutException == [exc |-> "TimeoutException", detail |-> <<"timed out">>]

\* The exception the HTTP client raises instead of a response, if any.
ClientRaises(resp) == resp.kind # "http"

ClientException(resp) ==
    IF resp.kind = "timeout" THEN TimeoutException
    ELSE OtherException("ConnectError", "connection failed")

JSONDecodeError == OtherException("JSONDecodeError", "Expecting value")
KeyError(k) == OtherException("KeyError", k)
TypeError == OtherException("TypeError", "string indices must be integers")

\* An error response as the framework sends it for a raised HTTPException.
ErrorResponse(e) == [status |-> e.status, detail |-> e.detail]

\* An exception no handler catches: the framework answers 500.
Unhandled(e) ==
    [status |-> HTTP_500_INTERNAL, detail |-> <<"Internal Server Error">>, unhandled |-> e.exc]

\* The validation error the framework answers before the handler runs.
ValidationErrorResponse == [status |-> 422, detail |-> <<"validation error">>]

(* ----------------------------- network log ----------------------------- *)

\* client.post(url, data=..., headers=...)
Post(provider, url, data) ==
    [method |-> "POST", provider |-> provider, url |-> url, data |-> data]

\* client.get(url, headers={"Authorization": f"Bearer {token}"})
GetCall(provider, url, token) ==
    [method |-> "GET", provider |-> provider, url |-> url, bearer |-> token]

\* A step of a handler either awaits a call or ends the handler.
Await(call) == [t |-> "await", call |-> call]
Raise(e) == [t |-> "raise", e |-> e]
Return(v) == [t |-> "return", v |-> v]

(* --------------------------- token exchange ---------------------------- *)

\* if not settings.google.client_secret
GoogleNotConfigured(g) == g.client_secret = ""

\* if not settings.authentik.url or not settings.authentik.client_id
AuthentikNotConfigured(a) == a.url = "" \/ a.client_id = ""

\* The form the Google exchange posts.
GoogleForm(g, request) ==
    [grant_type |-> "authorization_code", code |-> request.code,
     redirect_uri |-> request.redirect_uri, client_id |-> g.client_id,
     client_secret |-> g.client_secret, code_verifier |-> request.code_verifier]

\* The form the Authentik exchange posts (public client: no secret).
AuthentikForm(a, request) ==
    [grant_type |-> "authorization_code", code |-> request.code,
     redirect_uri |-> request.redirect_uri, client_id |-> a.client_id,
     code_verifier |-> request.code_verifier]

\* detail = resp.json() if "application/json" in content-type else resp.text,
\* formatted into f"{label} token exchange failed: {detail}"
ExchangeFailedDetail(label, resp) ==
    <<label, " token exchange failed: ">>
    \o (IF IsJsonContentType(resp) THEN PyStr(Json(resp)) ELSE Text(resp))

\* The non-200 branch of the token step evaluates resp.json() only for JSON content.
ExchangeFailed(label, resp) ==
    IF IsJsonContentType(resp) /\ JsonRaises(resp) THEN Raise(JSONDecodeError)
    ELSE Raise(HTTPException(HTTP_400_BAD_REQUEST, ExchangeFailedDetail(label, resp)))

\* tokens['access_token'] raises unless tokens is an object holding the key.
AccessTokenRaises(tokens) == tokens.t # "obj" \/ ~Has(tokens.v, "access_token")

AccessTokenError(tokens) == IF tokens.t # "obj" THEN TypeError ELSE KeyError("'access_token'")

\* Mutant: the userinfo request carries the refresh token.
TokenStepRefreshBearer(label, provider, userinfo_url, resp) ==
    IF ClientRaises(resp) THEN Raise(ClientException(resp))
    ELSE IF resp.status # HTTP_200_OK THEN ExchangeFailed(label, resp)
    ELSE IF JsonRaises(resp) THEN Raise(JSONDecodeError)
    ELSE IF AccessTokenRaises(Json(resp)) THEN Raise(AccessTokenError(Json(resp)))
    ELSE Await(GetCall(provider, userinfo_url, Json(resp).v["refresh_token"]))

\* From the token endpoint's answer to the userinfo request.
TokenStep(label, provider, userinfo_url, resp) ==
    IF ClientRaises(resp) THEN Raise(ClientException(resp))
    ELSE IF resp.status # HTTP_200_OK THEN ExchangeFailed(label, resp)
    ELSE IF JsonRaises(resp) THEN Raise(JSONDecodeError)
    ELSE IF AccessTokenRaises(Json(resp)) THEN Raise(AccessTokenError(Json(resp)))
    ELSE Await(GetCall(provider, userinfo_url, Json(resp).v["access_token"]))

\* name=userinfo.get("name")
GoogleName(userinfo) == Get(userinfo, "name")

\* Mutant: the Authentik mapping without the preferred_username priority.
AuthentikNameOnly(userinfo) == Get(userinfo, "name")

\* name=userinfo.get("preferred_username") or userinfo.get("name")
AuthentikName(userinfo) == PyOr(Get(userinfo, "preferred_username"), Get(userinfo, "name"))

\* UserInfo(sub=userinfo["sub"], email=userinfo["email"], name=..., picture=...)
UserInfo(userinfo, name) ==
    [sub |-> userinfo["sub"], email |-> userinfo["email"], name |-> name,
     picture |-> Get(userinfo, "picture")]

\* TokenResponse(access_token=tokens["access_token"], ..., userinfo=UserInfo(...))
TokenResponse(tokens, userinfo, name) ==
    [status |-> HTTP_200_OK,
     access_token |-> tokens["access_token"],
     refresh_token |-> Get(tokens, "refresh_token"),
     userinfo |-> UserInfo(userinfo, name)]

\* Mutant: sub and email read with .get, so that an absent key does not raise.
UserInfoRaisesLax(userinfo) == userinfo.t # "obj"

\* userinfo["sub"], userinfo["email"] raise unless userinfo is an object holding them.
UserInfoRaises(userinfo) ==
    userinfo.t # "obj" \/ ~Has(userinfo.v, "sub") \/ ~Has(userinfo.v, "email")

UserInfoError(userinfo) ==
    IF userinfo.t # "obj" THEN TypeError
    ELSE IF ~Has(userinfo.v, "sub") THEN KeyError("'sub'") ELSE KeyError("'email'")

\* Mutant: a timed-out userinfo request is issued again.
UserinfoStepRetry(label, google, tokens, resp) ==
    IF resp = Timeout
    THEN Await(IF google
               THEN GetCall("google", settings.google.userinfo_url, tokens["access_token"])
               ELSE GetCall("authentik", AuthentikUserinfoUrl(settings.authentik),
                            tokens["access_token"]))
    ELSE IF ClientRaises(resp) THEN Raise(ClientException(resp))
    ELSE IF resp.status # HTTP_200_OK
         THEN Raise(HTTPException(HTTP_400_BAD_REQUEST, <<"Failed to fetch ", label, " user info">>))
    ELSE IF JsonRaises(resp) THEN Raise(JSONDecodeError)
    ELSE IF UserInfoRaises(Json(resp)) THEN Raise(UserInfoError(Json(resp)))
    ELSE Return(TokenResponse(tokens, Json(resp).v,
                              IF google THEN GoogleName(Json(resp).v)
                              ELSE AuthentikName(Json(resp).v)))

\* From the userinfo endpoint's answer to the TokenResponse; google tells the mapping.
UserinfoStep(label, google, tokens, resp) ==
    IF ClientRaises(resp) THEN Raise(ClientException(resp))
    ELSE IF resp.status # HTTP_200_OK
         THEN Raise(HTTPException(HTTP_400_BAD_REQUEST, <<"Failed to fetch ", label, " user info">>))
    ELSE IF JsonRaises(resp) THEN Raise(JSONDecodeError)
    ELSE IF UserInfoRaises(Json(resp)) THEN Raise(UserInfoError(Json(resp)))
    ELSE Return(TokenResponse(tokens, Json(resp).v,
                              IF google THEN GoogleName(Json(resp).v)
                              ELSE AuthentikName(Json(resp).v)))

\* Mutant: the handler without its except httpx.TimeoutException clause.
ExchangeExceptNoTimeout(label, e) ==
    IF e.exc = "HTTPException" THEN ErrorResponse(e)
    ELSE [status |-> HTTP_500_INTERNAL, detail |-> e.detail]

\* except httpx.TimeoutException: 504; except HTTPException: raise; except Exception: 500
ExchangeExcept(label, e) ==
    IF e.exc = "TimeoutException"
    THEN [status |-> HTTP_504_TIMEOUT, detail |-> <<label, " OAuth timeout">>]
    ELSE IF e.exc = "HTTPException" THEN ErrorResponse(e)
    ELSE [status |-> HTTP_500_INTERNAL, detail |-> e.detail]

(* -------------------------- bearer verification ------------------------ *)

NoHeader == [present |-> FALSE]
Hdr(chars) == [present |-> TRUE, value |-> chars]

BearerPrefix == <<"B", "e", "a", "r", "e", "r", " ">>

\* Authorization headers a client may send.
Authorizations ==
    { NoHeader, Hdr(<<>>),
      Hdr(<<"B", "a", "s", "i", "c", " ", "a", "b", "c">>),
      Hdr(<<"b", "e", "a", "r", "e", "r", " ", "x">>),
      Hdr(<<"B", "e", "a", "r", "e", "r">>),
      Hdr(<<"B", "e", "a", "r", "e", "r", "x">>),
      Hdr(BearerPrefix),
      Hdr(BearerPrefix \o <<"t">>),
      Hdr(BearerPrefix \o <<" ", "t", " ">>),
      Hdr(BearerPrefix \o <<"u", "2">>) }

\* s.startswith(prefix)
StartsWith(s, prefix) ==
    Len(s) >= Len(prefix) /\ SubSeq(s, 1, Len(prefix)) = prefix

\* s.removeprefix(prefix)
RemovePrefix(s, prefix) ==
    IF StartsWith(s, prefix) THEN SubSeq(s, Len(prefix) + 1, Len(s)) ELSE s

RECURSIVE LStrip(_)
LStrip(s) == IF s # <<>> /\ Head(s) = " " THEN LStrip(Tail(s)) ELSE s

RECURSIVE RStrip(_)
RStrip(s) == IF s # <<>> /\ s[Len(s)] = " " THEN RStrip(SubSeq(s, 1, Len(s) - 1)) ELSE s

\* s.strip()
Strip(s) == RStrip(LStrip(s))

\* Mutant: the header check without the prefix test.
BearerMissingNoPrefix(authorization) ==
    ~authorization.present \/ authorization.value = <<>>

\* if not authorization or not authorization.startswith("Bearer ")
BearerMissing(authorization) ==
    \/ ~authorization.present
    \/ authorization.value = <<>>
    \/ ~StartsWith(authorization.value, BearerPrefix)

\* token = authorization.removeprefix("Bearer ").strip()
ExtractToken(authorization) == Strip(RemovePrefix(authorization.value, BearerPrefix))

\* verify_google_token once its GET was answered.
VerifyGoogleResult(resp) ==
    IF ClientRaises(resp) THEN Raise(ClientException(resp))
    ELSE IF resp.status # HTTP_200_OK
         THEN Raise(HTTPException(HTTP_401_UNAUTHORIZED, <<"Invalid Google token">>))
    ELSE IF JsonRaises(resp) THEN Raise(JSONDecodeError)
    ELSE Return(Json(resp))

\* verify_authentik_token: if not settings.authentik.url
AuthentikVerifyNotConfigured(a) == a.url = ""

\* verify_authentik_token once its GET was answered.
VerifyAuthentikResult(resp) ==
    IF ClientRaises(resp) THEN Raise(ClientException(resp))
    ELSE IF resp.status # HTTP_200_OK
         THEN Raise(HTTPException(HTTP_401_UNAUTHORIZED, <<"Invalid Authentik token">>))
    ELSE IF JsonRaises(resp) THEN Raise(JSONDecodeError)
    ELSE Return(Json(resp))

\* Mutant: a verified userinfo is kept in a module-level cache, and a later
\* request is answered from it.
TaggedCached(r, tag) ==
    IF r.t # "return" THEN r
    ELSE IF r.v.t # "obj" THEN Raise(TypeError)
    ELSE IF other.pc = "done" /\ "verified" \in DOMAIN other.outcome
         THEN Return(other.outcome.verified)
    ELSE Return(SetItem(r.v.v, "_provider", tag))

\* Mutant: the tag is set only when the payload has no '_provider' key (setdefault).
TaggedSetDefault(r, tag) ==
    IF r.t # "return" THEN r
    ELSE IF r.v.t # "obj" THEN Raise(TypeError)
    ELSE Return(IF Has(r.v.v, "_provider") THEN r.v.v ELSE SetItem(r.v.v, "_provider", tag))

\* Mutant: every verified userinfo is tagged 'google'.
TaggedAsGoogle(r, tag) ==
    IF r.t # "return" THEN r
    ELSE IF r.v.t # "obj" THEN Raise(TypeError)
    ELSE Return([r.v.v EXCEPT !["_provider"] = "google"])

\* userinfo["_provider"] = tag; return userinfo   (a str has no item assignment)
Tagged(r, tag) ==
    IF r.t # "return" THEN r
    ELSE IF r.v.t # "obj" THEN Raise(TypeError)
    ELSE Return(SetItem(r.v.v, "_provider", tag))

\* Mutant: a module-level flag set by the first finished request stops later
\* requests from going on after a failed probe.
SwallowedFirstOnly(r) ==
    r.t = "raise" /\ r.e.exc = "HTTPException" /\ other.pc # "done"

\* Mutant: the probe's result is dropped even when it returned.
SwallowedOrReturned(r) == r.t = "return" \/ r.e.exc = "HTTPException"

\* except HTTPException: pass
Swallowed(r) == r.t = "raise" /\ r.e.exc = "HTTPException"

\* The final raise of verify_bearer_token.
InvalidOrExpired == HTTPException(HTTP_401_UNAUTHORIZED, <<"Invalid or expired token">>)

\* me(): the MeResponse built from the verified userinfo.
MeResponse(userinfo) ==
    [status |-> HTTP_200_OK,
     verified |-> userinfo,
     body |-> [sub |-> Get(userinfo, "sub"),
               email |-> GetDefault(userinfo, "email", ""),
               name |-> PyOr(Get(userinfo, "preferred_username"), Get(userinfo, "name")),
               picture |-> Get(userinfo, "picture"),
               provider |-> GetDefault(userinfo, "_provider", "authentik"),
               role |-> None]]

\* What the /me route answers once verify_bearer_token returned or raised.
MeOutcome(r) ==
    IF r.t = "return" THEN MeResponse(r.v)
    ELSE IF r.e.exc = "HTTPException" THEN ErrorResponse(r.e)
    ELSE Unhandled(r.e)

(* ------------------------------- actions ------------------------------- *)

\* The frame of a handler that has not started.
IdleFrame ==
    [pc |-> "idle", op |-> [kind |-> "none"], calls |-> <<>>, resps |-> <<>>,
     outcome |-> NoOutcome]

Init ==
    /\ settings \in AppSettings
    /\ pc = "idle"
    /\ op = [kind |-> "none"]
    /\ calls = <<>>
    /\ resps = <<>>
    /\ outcome = NoOutcome
    /\ served = 0
    /\ other = IdleFrame

\* The server takes the next request when no handler is running.
Accepting == pc \in {"idle", "done"} /\ served < MaxRequests

\* _exchange_google up to its first await.
ExchangeGoogleStart(g, request) ==
    IF GoogleNotConfigured(g)
    THEN Raise(HTTPException(HTTP_500_INTERNAL, <<"Google OAuth not configured">>))
    ELSE Await(Post("google", g.token_url, GoogleForm(g, request)))

\* _exchange_authentik up to its first await.
ExchangeAuthentikStart(a, request) ==
    IF AuthentikNotConfigured(a)
    THEN Raise(HTTPException(HTTP_500_INTERNAL, <<"Authentik OAuth not configured">>))
    ELSE Await(Post("authentik", AuthentikTokenUrl(a), AuthentikForm(a, request)))

\* POST /api/login/{provider}/token: validation, dispatch, and the handler up to its POST.
token_exchange(provider, request) ==
    /\ Accepting
    /\ served' = served + 1
    /\ op' = [kind |-> "exchange", provider |-> provider, request |-> request]
    /\ resps' = <<>>
    /\ IF ~ProviderValid(provider) \/ ~TokenRequestValid(request)
       THEN /\ calls' = <<>>
            /\ outcome' = ValidationErrorResponse
            /\ pc' = "done"
       ELSE LET r == IF provider = "google"
                     THEN ExchangeGoogleStart(settings.google, request)
                     ELSE ExchangeAuthentikStart(settings.authentik, request)
            IN  IF r.t = "await"
                THEN /\ calls' = <<r.call>>
                     /\ outcome' = NoOutcome
                     /\ pc' = IF provider = "google" THEN "g_token" ELSE "a_token"
                ELSE /\ calls' = <<>>
                     /\ outcome' = ErrorResponse(r.e)
                     /\ pc' = "done"
    /\ UNCHANGED <<settings, other>>

\* A step of an exchange handler on the answer resp: r is what the handler does next.
ExchangeStep(label, resp, r, next) ==
    /\ resps' = Append(resps, resp)
    /\ IF r.t = "await"
       THEN /\ calls' = Append(calls, r.call)
            /\ pc' = next
            /\ UNCHANGED outcome
       ELSE /\ outcome' = IF r.t = "return" THEN r.v ELSE ExchangeExcept(label, r.e)
            /\ pc' = "done"
            /\ UNCHANGED calls
    /\ UNCHANGED <<settings, op, served, other>>

\* _exchange_google: the token endpoint answered.
ExchangeGoogleToken ==
    /\ pc = "g_token"
    /\ \E resp \in TokenResponses :
          ExchangeStep("Google", resp,
                       TokenStep("Google", "google", settings.google.userinfo_url, resp),
                       "g_userinfo")

\* _exchange_google: the userinfo endpoint answered.
ExchangeGoogleUserinfo ==
    /\ pc = "g_userinfo"
    /\ \E resp \in UserinfoResponses :
          ExchangeStep("Google", resp,
                       UserinfoStep("Google", TRUE, Json(resps[1]).v, resp), "done")

\* _exchange_authentik: the token endpoint answered.
ExchangeAuthentikToken ==
    /\ pc = "a_token"
    /\ \E resp \in TokenResponses :
          ExchangeStep("Authentik", resp,
                       TokenStep("Authentik", "authentik",
                                 AuthentikUserinfoUrl(settings.authentik), resp),
                       "a_userinfo")

\* _exchange_authentik: the userinfo endpoint answered.
ExchangeAuthentikUserinfo ==
    /\ pc = "a_userinfo"
    /\ \E resp \in UserinfoResponses :
          ExchangeStep("Authentik", resp,
                       UserinfoStep("Authentik", FALSE, Json(resps[1]).v, resp), "done")

\* verify_bearer_token after the Google probe raised an HTTPException: the Authentik probe.
TryAuthentik(a, token) ==
    IF AuthentikVerifyNotConfigured(a) THEN Raise(InvalidOrExpired)
    ELSE Await(GetCall("authentik", AuthentikUserinfoUrl(a), token))

\* GET /api/login/me: verify_bearer_token up to the Google probe.
me(authorization) ==
    /\ Accepting
    /\ served' = served + 1
    /\ op' = [kind |-> "me", authorization |-> authorization]
    /\ resps' = <<>>
    /\ IF BearerMissing(authorization)
       THEN /\ calls' = <<>>
            /\ outcome' = ErrorResponse(HTTPException(HTTP_401_UNAUTHORIZED,
                                                      <<"Missing Authorization header">>))
            /\ pc' = "done"
       ELSE /\ calls' = <<GetCall("google", settings.google.userinfo_url,
                                  ExtractToken(authorization))>>
            /\ outcome' = NoOutcome
            /\ pc' = "v_google"
    /\ UNCHANGED <<settings, other>>

\* verify_bearer_token: the Google probe was answered.
VerifyGoogle ==
    /\ pc = "v_google"
    /\ \E resp \in UserinfoResponses :
          LET r == Tagged(VerifyGoogleResult(resp), "google")
              n == IF Swallowed(r)
                   THEN TryAuthentik(settings.authentik, ExtractToken(op.authorization))
                   ELSE r
          IN  /\ resps' = Append(resps, resp)
              /\ IF n.t = "await"
                 THEN /\ calls' = Append(calls, n.call)
                      /\ pc' = "v_authentik"
                      /\ UNCHANGED outcome
                 ELSE /\ outcome' = MeOutcome(n)
                      /\ pc' = "done"
                      /\ UNCHANGED calls
    /\ UNCHANGED <<settings, op, served, other>>

\* verify_bearer_token: the Authentik probe was answered.
VerifyAuthentik ==
    /\ pc = "v_authentik"
    /\ \E resp \in UserinfoResponses :
          LET r == Tagged(VerifyAuthentikResult(resp), "authentik")
              n == IF Swallowed(r) THEN Raise(InvalidOrExpired) ELSE r
          IN  /\ resps' = Append(resps, resp)
              /\ outcome' = MeOutcome(n)
              /\ pc' = "done"
    /\ UNCHANGED <<settings, op, served, calls, other>>

Next ==
    \/ \E provider \in Providers, request \in Requests : token_exchange(provider, request)
    \/ ExchangeGoogleToken
    \/ ExchangeGoogleUserinfo
    \/ ExchangeAuthentikToken
    \/ ExchangeAuthentikUserinfo
    \/ \E authorization \in Authorizations : me(authorization)
    \/ VerifyGoogle
    \/ VerifyAuthentik

Spec == Init /\ [][Next]_vars

(* ---------------------------- two handlers ----------------------------- *)

\* The frame of the running handler.
Frame == [pc |-> pc, op |-> op, calls |-> calls, resps |-> resps, outcome |-> outcome]

\* The event loop resumes the other handler: the two frames change places.
Switch ==
    /\ other # Frame
    /\ pc' = other.pc
    /\ op' = other.op
    /\ calls' = other.calls
    /\ resps' = other.resps
    /\ outcome' = other.outcome
    /\ other' = Frame
    /\ UNCHANGED <<settings, served>>

\* The inputs of the interleaved runs: a part of those of Spec.
ConcRequests ==
    [has : {Fields}, code : {"code-1"}, redirect_uri : {"https://app/cb"},
     code_verifier : {StrOfLen(MIN_LENGTH)}]

ConcAuthorizations == {Hdr(BearerPrefix \o <<"t">>), Hdr(BearerPrefix \o <<"u", "2">>)}

ConcResponses ==
    { Timeout,
      Http(HTTP_200_OK, CtJson, ObjBody(Obj([access_token |-> "at1"]))),
      Http(HTTP_400_BAD_REQUEST, CtJson, ObjBody(Obj([error |-> "invalid_grant"]))),
      Http(HTTP_200_OK, CtJson, ObjBody(Obj([sub |-> "u-2", email |-> "b@x.io", picture |-> "pic"]))),
      Http(HTTP_200_OK, CtJson,
           ObjBody(Obj([sub |-> "u-1", email |-> "a@x.io", name |-> "Alice A.",
                        preferred_username |-> "alice"]))),
      Http(HTTP_401_UNAUTHORIZED, CtJson, ObjBody(Obj([error |-> "invalid_token"]))) }

\* Every answer the running handler got is one of ConcResponses.
ConcAnswers == \A i \in 1..Len(resps) : resps[i] \in ConcResponses

NextConc ==
    \/ \E provider \in {"google", "authentik"}, request \in ConcRequests :
          token_exchange(provider, request)
    \/ ExchangeGoogleToken /\ ConcAnswers'
    \/ ExchangeGoogleUserinfo /\ ConcAnswers'
    \/ ExchangeAuthentikToken /\ ConcAnswers'
    \/ ExchangeAuthentikUserinfo /\ ConcAnswers'
    \/ \E authorization \in ConcAuthorizations : me(authorization)
    \/ VerifyGoogle /\ ConcAnswers'
    \/ VerifyAuthentik /\ ConcAnswers'
    \/ Switch

SpecConc == Init /\ [][NextConc]_vars

(* ------------------------- vocabulary of the claims -------------------- *)

\* a occurs in b as a contiguous run.
IsInfix(a, b) ==
    \E i \in 0..(Len(b) - Len(a)) : SubSeq(b, i + 1, i + Len(a)) = a

\* The request in hand is a valid exchange for a known provider.
ValidExchange ==
    /\ op.kind = "exchange"
    /\ ProviderValid(op.provider)
    /\ TokenRequestValid(op.request)

\* The request in hand carries a well-formed bearer header.
BearerRequest ==
    /\ op.kind = "me"
    /\ op.authorization.present
    /\ StartsWith(op.authorization.value, BearerPrefix)

\* The i-th upstream call of the request was answered, with an HTTP response.
Answered(i) == Len(resps) >= i /\ IsHttp(resps[i])

\* The i-th answer is an HTTP response of non-success status.
Rejected(i) == Answered(i) /\ resps[i].status # HTTP_200_OK

\* The i-th answer is a success carrying a JSON object.
AcceptedObj(i) ==
    Answered(i) /\ resps[i].status = HTTP_200_OK /\ resps[i].body.t = "obj"

\* The i-th call got no answer within the timeout.
TimedOut(i) == Len(resps) >= i /\ resps[i] = Timeout

\* Some required secret, client id or URL of the provider is empty.
MissingConfig(provider) ==
    IF provider = "google"
    THEN \/ settings.google.client_id = ""
         \/ settings.google.client_secret = ""
         \/ settings.google.token_url = <<>>
         \/ settings.google.userinfo_url = <<>>
    ELSE settings.authentik.url = "" \/ settings.authentik.client_id = ""

(* -------------------------------- claims ------------------------------- *)

\* C1: a valid exchange for a provider with any required secret, client id or
\* URL empty issues no network call and ends with HTTP 500.
C1_UnconfiguredFailsFast ==
    (ValidExchange /\ MissingConfig(op.provider))
        => (calls = <<>> /\ pc = "done" /\ outcome.status = HTTP_500_INTERNAL)

\* C2: in verify, a probe that fails (non-success status or timeout) is
\* swallowed: after a failed Google probe the Authentik probe follows when
\* Authentik is configured, and the failure of a probe is never what the
\* caller gets.
C2_ProbeFailureSwallowed ==
    BearerRequest
        => /\ ((Rejected(1) \/ TimedOut(1)) /\ settings.authentik.url # "")
                => (Len(calls) = 2 /\ calls[2].provider = "authentik")
           /\ (pc = "done" /\ \E i \in 1..Len(resps) : Rejected(i) \/ TimedOut(i))
                => /\ "unhandled" \in DOMAIN outcome => outcome.unhandled # "TimeoutException"
                   /\ "detail" \in DOMAIN outcome
                         => outcome.detail \notin {<<"Invalid Google token">>,
                                                   <<"Invalid Authentik token">>}

\* C3: when Google rejects a bearer token and Authentik accepts it, verify
\* returns Authentik's userinfo payload tagged 'authentik' and nothing of
\* Google's failure.
C3_SecondProviderWins ==
    (BearerRequest /\ Rejected(1) /\ AcceptedObj(2))
        => /\ pc = "done"
           /\ DOMAIN outcome = {"status", "verified", "body"}
           /\ outcome.status = HTTP_200_OK
           /\ outcome.verified = [resps[2].body.v EXCEPT !["_provider"] = "authentik"]
           /\ outcome.body.provider = "authentik"

C3_Witness ==
    /\ BearerRequest /\ Rejected(1) /\ AcceptedObj(2) /\ pc = "done"
    /\ resps[2].body.v["_provider"] = "evil"
    /\ outcome.status = HTTP_200_OK

\* C4: a well-formed bearer header that no provider accepts ends with HTTP 401
\* 'Invalid or expired token', whatever the configuration and whatever the
\* upstream failures were.
C4_NoProviderAccepts ==
    (BearerRequest /\ pc = "done" /\ \A i \in 1..Len(resps) : ~(Answered(i) /\ resps[i].status = HTTP_200_OK))
        => /\ outcome.status = HTTP_401_UNAUTHORIZED
           /\ outcome.detail = <<"Invalid or expired token">>

\* C5: a header that is absent, empty or does not start with the exact
\* case-sensitive prefix 'Bearer ' ends with HTTP 401 'Missing Authorization
\* header' and no network call.
C5_MissingCredentials ==
    (/\ op.kind = "me"
     /\ \/ ~op.authorization.present
        \/ Len(op.authorization.value) < Len(BearerPrefix)
        \/ \E i \in 1..Len(BearerPrefix) : op.authorization.value[i] # BearerPrefix[i])
        => /\ pc = "done"
           /\ calls = <<>>
           /\ outcome.status = HTTP_401_UNAUTHORIZED
           /\ outcome.detail = <<"Missing Authorization header">>

C5_Witness ==
    /\ op.kind = "me" /\ pc = "done"
    /\ op.authorization = Hdr(<<"b", "e", "a", "r", "e", "r", " ", "x">>)
    /\ outcome.status = HTTP_401_UNAUTHORIZED
    /\ calls = <<>>

\* C6: when the token endpoint answers the exchange POST with a non-success
\* status, the exchange ends with HTTP 400 whose detail contains the upstream
\* body (the parsed JSON when the content type is JSON, else the raw text).
C6_UpstreamExchangeError ==
    (ValidExchange /\ Rejected(1))
        => /\ pc = "done"
           /\ outcome.status = HTTP_400_BAD_REQUEST
           /\ \/ IsInfix(Text(resps[1]), outcome.detail)
              \/ /\ IsJsonContentType(resps[1])
                 /\ ~JsonRaises(resps[1])
                 /\ IsInfix(PyStr(Json(resps[1])), outcome.detail)

\* C7: verify probes Google first and Authentik second; a token Google accepts
\* is returned tagged 'google' and Authentik's userinfo endpoint is not called.
C7_GoogleFirstShortCircuit ==
    BearerRequest
        => /\ Len(calls) \in 1..2
           /\ calls[1].provider = "google"
           /\ Len(calls) = 2 => calls[2].provider = "authentik"
           /\ AcceptedObj(1) => /\ pc = "done"
                                /\ Len(calls) = 1
                                /\ outcome.status = HTTP_200_OK
                                /\ outcome.verified["_provider"] = "google"

C7_Witness ==
    /\ BearerRequest /\ AcceptedObj(1) /\ pc = "done"
    /\ settings.authentik.url # ""
    /\ outcome.verified["_provider"] = "google"
    /\ Len(calls) = 1

\* Both upstream answers of the exchange in hand are well-formed successes.
WellFormedExchange ==
    /\ ValidExchange
    /\ AcceptedObj(1) /\ Has(resps[1].body.v, "access_token")
    /\ AcceptedObj(2) /\ Has(resps[2].body.v, "sub") /\ Has(resps[2].body.v, "email")

\* The exchange in hand returned a TokenResponse with the upstream sub and email.
ReturnsUpstreamIdentity ==
    /\ pc = "done"
    /\ outcome.status = HTTP_200_OK
    /\ outcome.userinfo.sub = resps[2].body.v["sub"]
    /\ outcome.userinfo.email = resps[2].body.v["email"]

\* C8 as stated: the name is 'name' for Google; for Authentik it is
\* 'preferred_username' whenever that key is present, else 'name'.
C8_NameWhenPresent ==
    WellFormedExchange
        => /\ ReturnsUpstreamIdentity
           /\ outcome.userinfo.name =
                IF op.provider = "google" THEN Get(resps[2].body.v, "name")
                ELSE IF Has(resps[2].body.v, "preferred_username")
                     THEN resps[2].body.v["preferred_username"]
                     ELSE Get(resps[2].body.v, "name")

\* C8 amended: for Authentik the name is 'preferred_username' when that key is
\* present and not the empty string, else 'name'; for Google it is 'name'.
C8_NameMapping ==
    WellFormedExchange
        => /\ ReturnsUpstreamIdentity
           /\ outcome.userinfo.name =
                IF op.provider = "google" THEN Get(resps[2].body.v, "name")
                ELSE IF Has(resps[2].body.v, "preferred_username")
                        /\ resps[2].body.v["preferred_username"] # ""
                     THEN resps[2].body.v["preferred_username"]
                     ELSE Get(resps[2].body.v, "name")

C8_Witness ==
    /\ WellFormedExchange /\ pc = "done"
    /\ op.provider = "authentik"
    /\ resps[2].body.v["preferred_username"] = "alice"
    /\ resps[2].body.v["name"] = "Alice A."
    /\ outcome.userinfo.name = "alice"

\* C9: a timeout of the token POST or of the userinfo GET ends the exchange
\* with HTTP 504.
C9_TimeoutIs504 ==
    (ValidExchange /\ \E i \in 1..Len(resps) : TimedOut(i))
        => (pc = "done" /\ outcome.status = HTTP_504_TIMEOUT)

C9_Witness ==
    /\ ValidExchange /\ AcceptedObj(1) /\ TimedOut(2)
    /\ pc = "done" /\ outcome.status = HTTP_504_TIMEOUT

\* C10: a successful token answer without an access token ends the exchange
\* with a 400-class error and no userinfo request.
C10_MissingAccessTokenIs400 ==
    (ValidExchange /\ AcceptedObj(1) /\ ~Has(resps[1].body.v, "access_token"))
        => /\ pc = "done"
           /\ Len(calls) = 1
           /\ outcome.status = HTTP_400_BAD_REQUEST

\* C11: an exchange whose code_verifier is shorter than 43 or longer than 128
\* characters is rejected at validation with no network call; verifiers of 43
\* and of 128 characters pass validation.
C11_VerifierLength ==
    (op.kind = "exchange" /\ Fields \subseteq op.request.has)
        => /\ (Len(op.request.code_verifier) < 43 \/ Len(op.request.code_verifier) > 128)
                => (pc = "done" /\ calls = <<>> /\ resps = <<>>
                    /\ outcome = ValidationErrorResponse)
           /\ (Len(op.request.code_verifier) \in {43, 128} /\ ProviderValid(op.provider))
                => outcome # ValidationErrorResponse

C11_Witness ==
    /\ op.kind = "exchange" /\ Fields \subseteq op.request.has
    /\ Len(op.request.code_verifier) = 129
    /\ ProviderValid(op.provider)
    /\ ~GoogleNotConfigured(settings.google)
    /\ pc = "done" /\ outcome = ValidationErrorResponse

\* C13: verify issues no call to the userinfo endpoint of a provider that is
\* not configured, Google included.
C13_UnconfiguredProbeSkipped ==
    BearerRequest => \A i \in 1..Len(calls) : ~MissingConfig(calls[i].provider)

\* The userinfo URL of a provider of the exchange route.
UserinfoUrlOf(provider) ==
    IF provider = "google" THEN settings.google.userinfo_url
    ELSE AuthentikUserinfoUrl(settings.authentik)

\* C14: in an exchange the first call is the token POST; a userinfo GET is
\* issued only after that POST was answered with success, carries the access
\* token of that answer and goes to the same provider; after a failed or
\* timed-out POST there is no GET.
C14_PostThenGet ==
    (ValidExchange /\ calls # <<>>)
        => /\ Len(calls) <= 2
           /\ calls[1].method = "POST" /\ calls[1].provider = op.provider
           /\ Len(calls) = 2
                => /\ AcceptedObj(1)
                   /\ calls[2].method = "GET"
                   /\ calls[2].provider = op.provider
                   /\ calls[2].url = UserinfoUrlOf(op.provider)
                   /\ calls[2].bearer = resps[1].body.v["access_token"]
                   /\ calls[2].bearer # Missing
           /\ (Len(resps) >= 1 /\ ~(Answered(1) /\ resps[1].status = HTTP_200_OK))
                => (Len(calls) = 1 /\ pc = "done")

C14_Witness ==
    /\ ValidExchange /\ op.provider = "authentik"
    /\ Len(calls) = 2 /\ pc = "a_userinfo"
    /\ calls[2].bearer = "at2"

\* C15: no upstream call is issued twice in a request (one POST and one GET
\* per exchange, one GET per provider per verify), and once a request has its
\* outcome nothing is pending and nothing more is issued.
C15_NoRetry ==
    /\ \A i, j \in 1..Len(calls) :
          i # j => <<calls[i].method, calls[i].provider>> # <<calls[j].method, calls[j].provider>>
    /\ Len(calls) <= 2
    /\ Len(resps) <= Len(calls) /\ Len(calls) <= Len(resps) + 1
    /\ (outcome # NoOutcome \/ pc = "done") => (pc = "done" /\ Len(resps) = Len(calls))

C15_Witness ==
    /\ ValidExchange /\ AcceptedObj(1) /\ TimedOut(2)
    /\ pc = "done" /\ Len(calls) = 2
    /\ outcome.status = HTTP_504_TIMEOUT

\* A userinfo answer of the request is a success without 'sub' or without 'email'.
MalformedUserinfo ==
    \/ /\ ValidExchange /\ AcceptedObj(2)
       /\ ~Has(resps[2].body.v, "sub") \/ ~Has(resps[2].body.v, "email")
    \/ /\ BearerRequest
       /\ \E i \in 1..Len(resps) :
             /\ AcceptedObj(i)
             /\ ~Has(resps[i].body.v, "sub") \/ ~Has(resps[i].body.v, "email")

\* C16: a successful userinfo answer without 'sub' or 'email' ends the
\* operation with a 400-class error and no identity, in exchange and on /me.
C16_MalformedUserinfoIs400 ==
    MalformedUserinfo
        => /\ pc = "done"
           /\ outcome.status = HTTP_400_BAD_REQUEST
           /\ DOMAIN outcome \cap {"userinfo", "body", "verified"} = {}

\* C17: an exchange request in which code, redirect_uri or code_verifier is
\* missing or empty is rejected before any network call.
C17_EmptyFieldRejected ==
    (/\ op.kind = "exchange"
     /\ \/ ~(Fields \subseteq op.request.has)
        \/ op.request.code = ""
        \/ op.request.redirect_uri = ""
        \/ op.request.code_verifier = <<>>)
        => /\ pc = "done"
           /\ calls = <<>>
           /\ outcome.status >= HTTP_400_BAD_REQUEST

\* C19: an exchange answers 200 only when the token POST and then the
\* userinfo GET of that request were both answered with well-formed successes,
\* and then returns that POST's access token; every other finished exchange
\* is an error that carries no token and no identity.
C19_TokensOnlyAfterBothSucceed ==
    (op.kind = "exchange" /\ pc = "done")
        => /\ outcome.status = HTTP_200_OK
                => /\ WellFormedExchange
                   /\ Len(resps) = 2 /\ Len(calls) = 2
                   /\ outcome.access_token = resps[1].body.v["access_token"]
                   /\ outcome.refresh_token = Get(resps[1].body.v, "refresh_token")
           /\ outcome.status # HTTP_200_OK
                => /\ outcome.status >= HTTP_400_BAD_REQUEST
                   /\ DOMAIN outcome \cap {"access_token", "refresh_token", "userinfo"} = {}

C19_Witness ==
    /\ op.kind = "exchange" /\ pc = "done"
    /\ AcceptedObj(1) /\ Has(resps[1].body.v, "access_token")
    /\ AcceptedObj(2) /\ ~Has(resps[2].body.v, "email")
    /\ outcome.status = HTTP_500_INTERNAL

\* C20: a successful verify is tagged with the provider whose userinfo
\* endpoint answered last, with success, whatever '_provider' the payload
\* held; the MeResponse carries that tag, never a default.
C20_TagIsAcceptingProvider ==
    (op.kind = "me" /\ pc = "done" /\ outcome.status = HTTP_200_OK)
        => /\ Len(calls) = Len(resps)
           /\ AcceptedObj(Len(resps))
           /\ outcome.verified["_provider"] = calls[Len(calls)].provider
           /\ outcome.body.provider = calls[Len(calls)].provider
           /\ \A k \in KeySet \ {"_provider"} :
                 outcome.verified[k] = resps[Len(resps)].body.v[k]

C20_Witness ==
    /\ op.kind = "me" /\ pc = "done" /\ outcome.status = HTTP_200_OK
    /\ Len(resps) = 1
    /\ resps[1].body.v["_provider"] = "evil"
    /\ outcome.body.provider = "google"

(* ----------------------- claims about two requests --------------------- *)

\* Two sequences of answers agree wherever both have one.
Consistent(a, b) ==
    \A i \in 1..Len(a) : i <= Len(b) => a[i] = b[i]

\* Both handlers are done, got the same request, and upstream answered the
\* calls they have in common alike.
SameRequestTwice ==
    /\ pc = "done" /\ other.pc = "done"
    /\ op = other.op
    /\ Consistent(resps, other.resps) /\ Consistent(other.resps, resps)

\* A step leaves the settings alone, and the frame of the other handler too
\* unless it is the event loop switching handlers.
ReadOnlyStep ==
    /\ settings' = settings
    /\ other' = other \/ (other' = Frame /\ Frame' = other)

\* C12: two verify calls with the same header, under the same upstream
\* behaviour, whether one after the other or interleaved, end with the same
\* identity and the same provider tag after the same calls; and no step
\* changes the settings or the other request's frame.
C12_VerifyIdempotent ==
    /\ []((SameRequestTwice /\ op.kind = "me")
            => (outcome = other.outcome /\ calls = other.calls /\ resps = other.resps))
    /\ [][ReadOnlyStep]_vars

C12_Witness ==
    /\ SameRequestTwice /\ op.kind = "me"
    /\ Len(resps) = 2 /\ Rejected(1)
    /\ outcome.status = HTTP_200_OK
    /\ outcome.verified["_provider"] = "authentik"

\* What a finished handler answered with 200 is made of its own answers.
OwnAnswers(f) ==
    (f.pc = "done" /\ f.outcome.status = HTTP_200_OK)
        => IF f.op.kind = "me"
           THEN /\ f.resps # <<>>
                /\ \A k \in KeySet \ {"_provider"} :
                      f.outcome.verified[k] = f.resps[Len(f.resps)].body.v[k]
                /\ f.outcome.verified["_provider"] = f.calls[Len(f.calls)].provider
           ELSE /\ Len(f.resps) = 2
                /\ f.outcome.access_token = f.resps[1].body.v["access_token"]
                /\ f.outcome.userinfo.sub = f.resps[2].body.v["sub"]
                /\ f.outcome.userinfo.email = f.resps[2].body.v["email"]

\* Every call of a handler is made for its own request.
OwnCalls(f) ==
    \A i \in 1..Len(f.calls) :
        IF f.op.kind = "me"
        THEN f.calls[i].method = "GET"
             /\ f.calls[i].bearer = SubSeq(f.op.authorization.value, Len(BearerPrefix) + 1,
                                           Len(f.op.authorization.value))
        ELSE /\ f.calls[i].provider = f.op.provider
             /\ f.calls[i].method = "POST" => f.calls[i].data.code = f.op.request.code

\* C18: with two requests interleaved in any way, what each answers is made
\* of its own input and of the answers to its own calls, two equal requests
\* with equal answers end alike, and no step changes the settings (or the
\* frame of the other request).
C18_RequestsIndependent ==
    /\ [](/\ OwnAnswers(Frame) /\ OwnAnswers(other)
          /\ OwnCalls(Frame) /\ OwnCalls(other)
          /\ SameRequestTwice => (outcome = other.outcome /\ calls = other.calls))
    /\ [][ReadOnlyStep]_vars

C18_Witness ==
    /\ pc = "g_userinfo" /\ other.pc = "v_authentik"
    /\ Len(resps) = 1 /\ Len(other.resps) = 1
    /\ served = 2

====
